---- MODULE Spec2Model ----
(***************************************************************************)
(* Image-Colorization: the colour-space ETL pipeline (src/etl.py) and the  *)
(* generator network (src/generator.py).                                   *)
(*                                                                         *)
(* Three specifications share this module:                                 *)
(*   SpecCvt  the two colour conversions called on a caller-owned array    *)
(*   SpecETL  ETL.__init__ and ETL.next_batch with its worker pool         *)
(*   SpecGen  Generator.__init__, Generator.forward and the mode flag      *)
(*                                                                         *)
(* Floating point numbers are fixed-point integers in units of 10^-6,      *)
(* products being rounded towards minus infinity.                          *)
(***************************************************************************)
EXTENDS Integers, Sequences, FiniteSets, TLC

VARIABLES
    \* ---- colour conversions called by a client (SpecCvt)
    orig,        \* the RGB image the client started from
    arr,         \* the numpy array the client holds and passes as `image`
    prov,        \* the conversions whose results were chained to give arr
    calls,       \* the calls made on arr: op, argument before/after, result
    \* ---- ETL (SpecETL)
    batch_size,  \* self.batch_size
    image_size,  \* self.image_size
    cap,         \* the ImageFolder dataset, after Scale and CenterCrop
    cursor,      \* number of images self.loader has already yielded
    pcE,         \* where next_batch is: "idle" (not running), "mapping"
    idxs,        \* dataset indices of the batch drawn by next(self.loader)
    images,      \* the local `images` of next_batch as loaded (RGB)
    done,        \* positions of the pool tasks that have finished
    lastDone,    \* position of the task that finished last (0: none yet)
    results,     \* the pool's result slots, by task position
    ret,         \* what the last next_batch call returned: (y, images)
    signal,      \* how the last next_batch call ended
    sizes,       \* sizes of the batches returned so far
    served,      \* dataset indices returned so far, in order
    \* ---- Generator (SpecGen)
    training,    \* nn.Module.training
    params,      \* weight and bias of conv1..conv6
    stats,       \* running statistics of norm1..norm5 (batches folded in)
    v,           \* the `v` argument of the last forward call
    noise,       \* the `noise` argument of the last forward call
    fwd,         \* what the last forward call did and returned
    nfwd         \* number of forward calls made

cvtVars == <<orig, arr, prov, calls>>
etlVars == <<batch_size, image_size, cap, cursor, pcE, idxs, images,
             done, lastDone, results, ret, signal, sizes, served>>
genVars == <<training, params, stats, v, noise, fwd, nfwd>>
vars == <<cvtVars, etlVars, genVars>>

\* ------------------------------------------------------------------ bounds
MaxSize == 2      \* image_size ranges over 1..MaxSize
MaxN == 10        \* number of images in data/training
MaxBatch == 4    \* batch_size ranges over 1..MaxBatch
MaxCalls == 2     \* conversion calls made on one array
MaxChain == 2     \* conversions chained result-to-argument
MaxDim == 2       \* tensor batch, height and width range over 1..MaxDim
MaxCh == 3        \* channel counts of v and noise range over 1..MaxCh
MaxForward == 2   \* forward calls in one behaviour
MaxSeed == 1      \* outcomes of the random weight initialisation

\* --------------------------------------------------------- fixed point
Unit == 1000 * 1000

Abs(x) == IF x < 0 THEN -x ELSE x

\* a * c for a, c in units of 10^-6, without leaving 32 bits
Mul(a, c) ==
    LET ah == a \div 1000
        al == a % 1000
        ch == c \div 1000
        cl == c % 1000
    IN  ah * ch + ((ah * cl + al * ch) + ((al * cl) \div 1000)) \div 1000

\* numpy's image.dot(m) on one pixel: out[j] = sum_k px[k] * m[k][j]
Dot(px, m) ==
    [j \in 1..3 |-> Mul(px[1], m[1][j]) + Mul(px[2], m[2][j]) + Mul(px[3], m[3][j])]

Clip(x, lo, hi) == IF x < lo THEN lo ELSE IF x > hi THEN hi ELSE x

\* ------------------------------------------------- colour conversions
RGB2YUV ==
    << <<299000, -169000, 500000>>,
       <<587000, -331000, -419000>>,
       <<114000, 500000, -81000>> >>

YUV2RGB ==
    << <<1000000, 1000000, 1000000>>,
       <<-930, -343700, 1772160>>,
       <<1401687, -714170, 990>> >>

Offset == <<0, 127500000, 127500000>>

\* x / 127.5 - 1.
Normalize(x) == ((2 * x) \div 255) - Unit

Rgb2YuvPixel(px) ==
    LET d == Dot(px, RGB2YUV) IN [j \in 1..3 |-> Normalize(d[j] + Offset[j])]

\* ETL.rgb2yuv: the returned array (the argument is only rebound, not written)
rgb2yuv(image) ==
    [r \in DOMAIN image |-> [c \in DOMAIN image[r] |-> Rgb2YuvPixel(image[r][c])]]

SubOffsetPixel(px) == [j \in 1..3 |-> px[j] - Offset[j]]

\* ETL.yuv2rgb, line 45: what `image -= [0, 127.5, 127.5]` leaves in the
\* caller's array
yuv2rgbArg(image) ==
    [r \in DOMAIN image |-> [c \in DOMAIN image[r] |-> SubOffsetPixel(image[r][c])]]

Yuv2RgbPixel(px) ==
    LET d == Dot(SubOffsetPixel(px), YUV2RGB)
    IN  [j \in 1..3 |-> Clip(d[j], 0, 255 * Unit)]

\* ETL.yuv2rgb: the returned array
yuv2rgb(image) ==
    [r \in DOMAIN image |-> [c \in DOMAIN image[r] |-> Yuv2RgbPixel(image[r][c])]]

\* ------------------------------------------------------------ test images
Palette ==
    << <<0, 0, 0>>, <<255, 255, 255>>, <<255, 0, 0>>,
       <<0, 255, 0>>, <<0, 0, 255>>, <<12, 200, 77>> >>

NPal == Len(Palette)

ToFloat(px) == [j \in 1..3 |-> px[j] * Unit]

\* the k-th s x s RGB image, a float array holding integer values
Image(k, s) ==
    [r \in 1..s |-> [c \in 1..s |-> ToFloat(Palette[((k + r + 2 * c) % NPal) + 1])]]

NoImage == <<>>

\* ============================================================== SpecCvt
CvtInit ==
    /\ \E k \in 0..(NPal - 1), s \in 1..MaxSize : orig = Image(k, s)
    /\ arr = orig
    /\ prov = <<>>
    /\ calls = <<>>

CvtIdle ==
    /\ orig = Image(0, 1) /\ arr = orig /\ prov = <<>> /\ calls = <<>>

\* the client calls etl.rgb2yuv(arr)
CallRgb2Yuv ==
    /\ Len(calls) < MaxCalls
    /\ calls' = Append(calls, [op |-> "rgb2yuv", before |-> arr, after |-> arr,
                               result |-> rgb2yuv(arr)])
    /\ UNCHANGED <<orig, arr, prov>>
    /\ UNCHANGED <<etlVars, genVars>>

\* the client calls etl.yuv2rgb(arr)
CallYuv2Rgb ==
    /\ Len(calls) < MaxCalls
    /\ arr' = yuv2rgbArg(arr)
    /\ calls' = Append(calls, [op |-> "yuv2rgb", before |-> arr, after |-> arr',
                               result |-> yuv2rgb(arr)])
    /\ UNCHANGED <<orig, prov>>
    /\ UNCHANGED <<etlVars, genVars>>

\* the client goes on with the array the last call returned
UseResult ==
    /\ calls # <<>>
    /\ Len(prov) < MaxChain
    /\ arr' = calls[Len(calls)].result
    /\ prov' = IF Len(calls) = 1
                  THEN Append(prov, calls[1].op)
                  ELSE Append(prov, "other")
    /\ calls' = <<>>
    /\ UNCHANGED orig
    /\ UNCHANGED <<etlVars, genVars>>

CvtNext ==
    \/ CallRgb2Yuv
    \/ CallYuv2Rgb
    \/ UseResult


\* ============================================================== SpecETL
Min(a, b) == IF a < b THEN a ELSE b

\* transforms.RandomHorizontalFlip on an image that is flipped
HFlip(image) ==
    [r \in DOMAIN image |->
        [c \in DOMAIN image[r] |-> image[r][Len(image[r]) + 1 - c]]]

\* DataLoader(cap, batch_size) with drop_last=True, for comparison
BatchIndicesDropLast(cur, n, b) ==
    IF cur + b <= n THEN [p \in 1..b |-> cur + p] ELSE <<>>

\* next(self.loader): the dataset indices of the next batch of
\* DataLoader(cap, batch_size) (sequential sampler, last batch kept), the
\* empty sequence standing for StopIteration
BatchIndices(cur, n, b) ==
    [p \in 1..Min(b, n - cur) |-> cur + p]

\* the slot a finished task's result would take were the list filled in
\* completion order, for comparison
ResultSlotNextFree(p, res) ==
    CHOOSE q \in DOMAIN res :
        res[q] = NoImage /\ \A q2 \in 1..(q - 1) : res[q2] # NoImage

\* self.pool.map(...): the slot of the returned list that takes the result
\* of the task at position p
ResultSlot(p, res) == p

\* images[:, :, :, 1].unsqueeze(-1), for comparison
ChromaSlice(t) ==
    [b \in DOMAIN t |-> [r \in DOMAIN t[b] |->
        [c \in DOMAIN t[b][r] |-> <<t[b][r][c][2]>>]]]

\* images[:, :, :, 0].unsqueeze(-1)
LumaSlice(t) ==
    [b \in DOMAIN t |-> [r \in DOMAIN t[b] |->
        [c \in DOMAIN t[b][r] |-> <<t[b][r][c][1]>>]]]

\* torch.Tensor(images): the float32 rounding is below the 10^-6 grid for
\* values in [-1, 1], so the values are kept
Tensor(list) == list

NoRet == [y |-> <<>>, full |-> <<>>]

\* ETL.__init__ over a folder of n >= 1 images.  An item of the loader is
\* taken to be the image alone, as the float array that rgb2yuv is written
\* for; the order is the dataset's (DataLoader is given no shuffle).
ETLInit ==
    /\ batch_size \in 1..MaxBatch
    /\ image_size \in 1..MaxSize
    /\ \E n \in 1..MaxN : cap = [i \in 1..n |-> Image(i, image_size)]
    /\ cursor = 0
    /\ pcE = "idle"
    /\ idxs = <<>>
    /\ images = <<>>
    /\ done = {}
    /\ lastDone = 0
    /\ results = <<>>
    /\ ret = NoRet
    /\ signal = "none"
    /\ sizes = <<>>
    /\ served = <<>>

ETLIdle ==
    /\ batch_size = 1 /\ image_size = 1 /\ cap = <<Image(0, 1)>>
    /\ cursor = 0 /\ pcE = "idle" /\ idxs = <<>> /\ images = <<>>
    /\ done = {} /\ lastDone = 0 /\ results = <<>> /\ ret = NoRet
    /\ signal = "none" /\ sizes = <<>> /\ served = <<>>

\* next_batch, lines 28-29: draw the batch and hand one task per image to
\* the pool
NextBatchLoad ==
    /\ pcE = "idle"
    /\ BatchIndices(cursor, Len(cap), batch_size) # <<>>
    /\ idxs' = BatchIndices(cursor, Len(cap), batch_size)
    /\ \E flip \in [DOMAIN idxs' -> BOOLEAN] :
          images' = [p \in DOMAIN idxs' |->
                        IF flip[p] THEN HFlip(cap[idxs'[p]]) ELSE cap[idxs'[p]]]
    /\ cursor' = cursor + Len(idxs')
    /\ done' = {}
    /\ lastDone' = 0
    /\ results' = [p \in DOMAIN idxs' |-> NoImage]
    /\ pcE' = "mapping"
    /\ signal' = "running"
    /\ UNCHANGED <<batch_size, image_size, cap, ret, sizes, served>>
    /\ UNCHANGED <<cvtVars, genVars>>

\* next_batch, line 28, on an exhausted loader: StopIteration propagates
NextBatchStop ==
    /\ pcE = "idle"
    /\ BatchIndices(cursor, Len(cap), batch_size) = <<>>
    /\ signal' = "StopIteration"
    /\ UNCHANGED <<batch_size, image_size, cap, cursor, pcE, idxs, images,
                   done, lastDone, results, ret, sizes, served>>
    /\ UNCHANGED <<cvtVars, genVars>>

\* a pool worker finishes self.rgb2yuv(images[p])
WorkerDone ==
    /\ pcE = "mapping"
    /\ \E p \in DOMAIN images :
          /\ p \notin done
          /\ done' = done \cup {p}
          /\ lastDone' = p
          /\ results' = [results EXCEPT
                            ![ResultSlot(p, results)] = rgb2yuv(images[p])]
    /\ UNCHANGED <<batch_size, image_size, cap, cursor, pcE, idxs, images,
                   ret, signal, sizes, served>>
    /\ UNCHANGED <<cvtVars, genVars>>

\* next_batch, lines 29-32: map() returns once every task has finished
NextBatchReturn ==
    /\ pcE = "mapping"
    /\ done = DOMAIN images
    /\ LET full == Tensor(results)
       IN  ret' = [y |-> LumaSlice(full), full |-> full]
    /\ signal' = "batch"
    /\ sizes' = Append(sizes, Len(ret'.full))
    /\ served' = served \o idxs
    /\ pcE' = "idle"
    /\ UNCHANGED <<batch_size, image_size, cap, cursor, idxs, images,
                   done, lastDone, results>>
    /\ UNCHANGED <<cvtVars, genVars>>

ETLNext ==
    \/ NextBatchLoad
    \/ NextBatchStop
    \/ WorkerDone
    \/ NextBatchReturn


\* ============================================================== SpecGen
\* A tensor is its batch size, height, width and, in ch, one entry per
\* channel (dimension 1 of the code's tensors): the channel's origin
\* followed by the layers applied to it since.
Digit == <<"0", "1", "2", "3", "4", "5", "6", "7">>

Input(name, b, c, h, w) ==
    [b |-> b, h |-> h, w |-> w, ch |-> [k \in 1..c |-> <<name, Digit[k]>>]]

NoTensor == [b |-> 0, h |-> 0, w |-> 0, ch |-> <<>>]

\* nn.Conv2d(in, out, kernel, padding) of conv1..conv6
InCh == <<3, 129, 65, 65, 65, 33>>
OutCh == <<128, 64, 64, 64, 32, 2>>
Kernel == <<7, 5, 5, 5, 5, 5>>
Padding == <<3, 2, 2, 2, 2, 2>>
ConvName == <<"conv1", "conv2", "conv3", "conv4", "conv5", "conv6">>
\* nn.BatchNorm2d(features) of norm1..norm5
NormCh == <<128, 64, 64, 64, 32>>
NormName == <<"norm1", "norm2", "norm3", "norm4", "norm5">>

Stages == 1..6

\* torch.cat without its size check, for comparison
CatOkUnchecked(a, b) == TRUE

\* torch.cat(.., 1): every dimension but dimension 1 must agree
CatOk(a, b) == a.b = b.b /\ a.h = b.h /\ a.w = b.w

Cat(a, b) ==
    [ok |-> CatOk(a, b),
     t |-> [b |-> a.b, h |-> a.h, w |-> a.w, ch |-> a.ch \o b.ch]]

\* conv(x): the input must have the declared number of channels
ConvOk(i, x) ==
    /\ Len(x.ch) = InCh[i]
    /\ x.h + 2 * Padding[i] - Kernel[i] + 1 > 0
    /\ x.w + 2 * Padding[i] - Kernel[i] + 1 > 0

Conv(i, x) ==
    [b |-> x.b,
     h |-> x.h + 2 * Padding[i] - Kernel[i] + 1,
     w |-> x.w + 2 * Padding[i] - Kernel[i] + 1,
     ch |-> [k \in 1..OutCh[i] |-> <<ConvName[i]>>]]

\* an elementwise layer (normalization, ReLU, Tanh) applied to x
Apply(layer, x) ==
    [x EXCEPT !.ch = [k \in DOMAIN x.ch |-> Append(x.ch[k], layer)]]

\* BatchNorm2d folding one batch into its running statistics whatever the
\* mode, for comparison
NormUpdateAlways(st, i, mode) == [st EXCEPT ![i] = st[i] + 1]

\* BatchNorm2d.forward: the running statistics of norm_i after one batch
NormUpdate(st, i, mode) ==
    IF mode THEN [st EXCEPT ![i] = st[i] + 1] ELSE st

\* conv_block without the luma concatenation, for comparison
StageInputNoLuma(x, vv) == [ok |-> TRUE, t |-> x]

\* conv_block, line 78
StageInput(x, vv) == Cat(x, vv)

\* forward's return with the luma channel first, for comparison
OutputLumaFirst(x, vv) == Cat(vv, x)

\* forward, line 62
Output(x, vv) == Cat(x, vv)

Failed(s) == [s EXCEPT !.ok = FALSE, !.x = NoTensor]

\* conv_block(x, v, block, last) on the running state s of a forward call:
\* s.x the activation, s.ops the operations applied so far, s.fed the
\* channel counts handed to the convolutions, s.stats the running statistics
conv_block(s, vv, block, last, mode) ==
    LET c == StageInput(s.x, vv)
        s1 == [s EXCEPT !.ops = Append(s.ops, "cat")]
        s2 == [s1 EXCEPT !.fed = Append(s1.fed, Len(c.t.ch)),
                         !.ops = Append(s1.ops, ConvName[block])]
        y == Conv(block, c.t)
    IN  IF ~c.ok THEN Failed(s1)
        ELSE IF ~ConvOk(block, c.t) THEN Failed(s2)
        ELSE IF ~last
             THEN [s2 EXCEPT
                     !.x = Apply("relu", Apply(NormName[block], y)),
                     !.ops = s2.ops \o <<NormName[block], "relu">>,
                     !.stats = NormUpdate(s2.stats, block, mode)]
             ELSE [s2 EXCEPT
                     !.x = Apply("tanh", y),
                     !.ops = Append(s2.ops, "tanh")]

\* forward, lines 58-59: blocks i..6
RECURSIVE Blocks(_, _, _, _)
Blocks(s, vv, i, mode) ==
    IF i > 6 \/ ~s.ok THEN s
    ELSE Blocks(conv_block(s, vv, i, i = 6, mode), vv, i + 1, mode)

\* Generator.forward(noise, v) in mode `mode` with running statistics st
forward(nz, vv, mode, st) ==
    LET c0 == Cat(vv, nz)
        s0 == [ok |-> c0.ok, x |-> c0.t, ops |-> <<"cat">>, fed |-> <<>>,
               stats |-> st]
        s6 == IF c0.ok THEN Blocks(s0, vv, 1, mode) ELSE Failed(s0)
        x7 == Apply("tanh", s6.x)
        out == Output(x7, vv)
    IN  IF ~s6.ok THEN s6
        ELSE IF ~out.ok THEN Failed([s6 EXCEPT !.ops = s6.ops \o <<"tanh", "cat">>])
        ELSE [s6 EXCEPT !.x = out.t, !.ops = s6.ops \o <<"tanh", "cat">>]

NoCall == [called |-> FALSE, ok |-> FALSE, mode |-> FALSE, out |-> NoTensor,
           ops |-> <<>>, fed |-> <<>>]

\* Generator.__init__, and the arguments the caller will pass to forward
GenInit ==
    /\ training = TRUE
    /\ \E s \in 0..MaxSeed :
          params = [i \in Stages |-> [weight |-> 10 * s + i, bias |-> s]]
    /\ stats = [i \in 1..5 |-> 0]
    /\ \E b \in 1..MaxDim, c \in 1..MaxCh, h \in 1..MaxDim, w \in 1..MaxDim :
          v = Input("v", b, c, h, w)
    /\ \E b \in 1..MaxDim, c \in 1..MaxCh, h \in 1..MaxDim, w \in 1..MaxDim :
          noise = Input("noise", b, c, h, w)
    /\ fwd = NoCall
    /\ nfwd = 0

GenIdle ==
    /\ training = TRUE
    /\ params = [i \in Stages |-> [weight |-> i, bias |-> 0]]
    /\ stats = [i \in 1..5 |-> 0]
    /\ v = NoTensor /\ noise = NoTensor /\ fwd = NoCall /\ nfwd = 0

\* a call generator(noise, v)
Forward ==
    /\ nfwd < MaxForward
    /\ LET r == forward(noise, v, training, stats)
       IN  /\ fwd' = [called |-> TRUE, ok |-> r.ok, mode |-> training,
                      out |-> r.x, ops |-> r.ops, fed |-> r.fed]
           /\ stats' = r.stats
    /\ nfwd' = nfwd + 1
    /\ UNCHANGED <<training, params, v, noise>>
    /\ UNCHANGED <<cvtVars, etlVars>>

\* generator.train() / generator.eval(), inherited from nn.Module
SetMode ==
    /\ \E m \in BOOLEAN : training' = m /\ m # training
    /\ UNCHANGED <<params, stats, v, noise, fwd, nfwd>>
    /\ UNCHANGED <<cvtVars, etlVars>>

GenNext ==
    \/ Forward
    \/ SetMode

\* ======================================================= specifications
InitCvt == CvtInit /\ ETLIdle /\ GenIdle

SpecCvt == InitCvt /\ [][CvtNext]_vars

InitETL == ETLInit /\ CvtIdle /\ GenIdle

SpecETL == InitETL /\ [][ETLNext]_vars

InitGen == GenInit /\ CvtIdle /\ ETLIdle

SpecGen == InitGen /\ [][GenNext]_vars


\* =============================================================== claims

\* ---- SpecETL

\* the batch sizes one pass over n images in batches of b is to give
ExpectedSizes(n, b) ==
    [i \in 1..((n + b - 1) \div b) |-> IF i * b <= n THEN b ELSE n % b]

IsPrefix(s, t) ==
    /\ Len(s) <= Len(t)
    /\ \A i \in DOMAIN s : s[i] = t[i]

C7_LumaIsChannel0 ==
    signal = "batch" =>
        /\ Len(ret.full) = Len(idxs)
        /\ DOMAIN ret.y = DOMAIN ret.full
        /\ \A b \in DOMAIN ret.full :
              /\ DOMAIN ret.full[b] = 1..image_size
              /\ DOMAIN ret.y[b] = 1..image_size
              /\ \A r \in 1..image_size :
                    /\ DOMAIN ret.full[b][r] = 1..image_size
                    /\ DOMAIN ret.y[b][r] = 1..image_size
                    /\ \A c \in 1..image_size :
                          /\ Len(ret.full[b][r][c]) = 3
                          /\ ret.y[b][r][c] = <<ret.full[b][r][c][1]>>

C7_Witness ==
    /\ signal = "batch"
    /\ image_size = 2
    /\ Len(ret.y) = 2
    /\ ret.full[2][1][2][1] # ret.full[2][1][2][2]
    /\ ret.y[2][1][2] = <<ret.full[2][1][2][1]>>

\* ---- SpecCvt

\* C5 (as claimed): rgb2yuv followed by yuv2rgb on its result gives back an
\* integer-valued RGB image to within 2 in every channel of every pixel.
C5_RoundTrip ==
    (prov = <<"rgb2yuv">> /\ calls # <<>> /\ calls[1].op = "yuv2rgb") =>
        \A r \in DOMAIN orig : \A c \in DOMAIN orig[r] : \A j \in 1..3 :
            Abs(calls[1].result[r][c][j] - orig[r][c][j]) <= 2 * Unit

\* C10 (as claimed): a call to rgb2yuv or yuv2rgb leaves its argument array
\* unchanged, and two calls of the same conversion on the same array return
\* the same result.
C10_Pure ==
    /\ \A i \in DOMAIN calls : calls[i].after = calls[i].before
    /\ \A i, j \in DOMAIN calls :
          calls[i].op = calls[j].op => calls[i].result = calls[j].result

\* ---- SpecGen

SameBatch == v.b = noise.b

SameSpatial == v.h = noise.h /\ v.w = noise.w

\* the output is batch x 3 x H x W, its channels 0-1 come out of conv6 and
\* its channel 2 is v
PassThrough ==
    /\ fwd.ok
    /\ fwd.out.b = v.b /\ fwd.out.h = v.h /\ fwd.out.w = v.w
    /\ Len(fwd.out.ch) = 3
    /\ fwd.out.ch[3] = v.ch[1]
    /\ \A k \in 1..2 : fwd.out.ch[k][1] = "conv6"

\* C3 (as claimed): every forward(noise, v) with a 1-channel v and noise of
\* v's spatial dimensions returns a 3-channel tensor of v's batch and spatial
\* dimensions whose channel 2 is v.
C3_AnyNoise ==
    (fwd.called /\ Len(v.ch) = 1 /\ SameBatch /\ SameSpatial) => PassThrough

\* C3 (amended): the same for every forward(noise, v) with a 1-channel v and
\* a 1-channel noise of v's batch and spatial dimensions.
C3_PassThrough ==
    (fwd.called /\ Len(v.ch) = 1 /\ Len(noise.ch) = 1 /\ SameBatch /\ SameSpatial)
        => PassThrough

C3_Witness ==
    /\ fwd.called /\ fwd.ok
    /\ v.b = 2 /\ v.h = 2 /\ v.w = 2
    /\ fwd.out.ch[3] = <<"v", "0">>

\* C4: forward(noise, v) fails, and returns no tensor, whenever the spatial
\* dimensions of noise and v differ or v has a channel count other than 1.
C4_ShapeMismatch ==
    (fwd.called /\ (~SameSpatial \/ Len(v.ch) # 1)) =>
        (~fwd.ok /\ fwd.out = NoTensor)

C4_Witness ==
    /\ fwd.called /\ ~fwd.ok
    /\ Len(v.ch) = 1 /\ Len(noise.ch) = 1 /\ SameBatch
    /\ v.h # noise.h /\ v.w = noise.w

\* C6 (as claimed): in every forward(noise, v) with a 1-channel v and noise
\* of v's spatial dimensions, the six convolutions are handed 3, 129, 65, 65,
\* 65 and 33 channels and all six stages run.
C6_AnyNoise ==
    (fwd.called /\ Len(v.ch) = 1 /\ SameBatch /\ SameSpatial) =>
        (fwd.ok /\ fwd.fed = InCh)

\* C6 (amended): the same for every forward(noise, v) with a 1-channel v and
\* a 1-channel noise of v's batch and spatial dimensions.
C6_StageChannels ==
    (fwd.called /\ Len(v.ch) = 1 /\ Len(noise.ch) = 1 /\ SameBatch /\ SameSpatial)
        => (fwd.ok /\ fwd.fed = InCh)

C6_Witness ==
    /\ fwd.called /\ fwd.ok
    /\ fwd.fed = <<3, 129, 65, 65, 65, 33>>
    /\ v.h = 1 /\ v.w = 2

\* the order of operations the claim gives for one forward call
ClaimedOps ==
    <<"cat",
      "cat", "conv1", "norm1", "relu",
      "cat", "conv2", "norm2", "relu",
      "cat", "conv3", "norm3", "relu",
      "cat", "conv4", "norm4", "relu",
      "cat", "conv5", "norm5", "relu",
      "cat", "conv6", "tanh",
      "cat">>

\* C8 (as claimed): forward applies concatenation, convolution,
\* normalization and ReLU in stages 1-5, concatenation, convolution and Tanh
\* in stage 6, and concatenates v onto the Tanh of conv6's output, Tanh
\* being applied exactly once.
C8_TanhOnce ==
    (fwd.called /\ fwd.ok) =>
        /\ fwd.ops = ClaimedOps
        /\ \A k \in 1..2 : fwd.out.ch[k] = <<"conv6", "tanh">>

\* C9: a forward call never changes a convolution weight or bias; it
\* changes the running statistics only in training mode, and in inference
\* mode it leaves the whole generator state unchanged.
C9_ForwardFrame ==
    [][nfwd' # nfwd =>
         /\ params' = params
         /\ training' = training
         /\ stats' # stats => training
         /\ ~training => stats' = stats]_vars

C9_Witness ==
    /\ nfwd = 2
    /\ fwd.ok
    /\ ~fwd.mode
    /\ stats = [i \in 1..5 |-> 1]

====
